---- MODULE Spec2Model ----
(***************************************************************************)
(* unassert: the visitor of src/index.mjs (createVisitor: enter / leave)   *)
(* driven by estraverse.replace over an ESTree, as unassertAst does.       *)
(*                                                                         *)
(* An AST node is a record [id, type, name, slots].  id is the node's      *)
(* identity (its path in the tree as first supplied); name holds the       *)
(* Identifier name, the Literal value or the AssignmentExpression          *)
(* operator; slots are the node's child keys in estraverse's VisitorKeys   *)
(* order, each a single child (or null) or an array of children.           *)
(***************************************************************************)
EXTENDS Integers, Sequences, FiniteSets, TLC

VARIABLES
    input,            \* the tree as the caller supplied it
    options,          \* the options value the caller supplied
    ast,              \* the tree, mutated in place (outer.root of replace)
    worklist,         \* estraverse worklist: node ids and sentinels, top first
    leavelist,        \* estraverse leavelist: ids of entered nodes, top first
    targetModules,    \* createVisitor: const targetModules
    targetVariables,  \* createVisitor: const targetVariables
    nodeToRemove,     \* createVisitor: const nodeToRemove (WeakSet, by identity)
    pc,               \* "walk" | "returned" | "threw": where the call stands
    ret,              \* identity of the node unassertAst returned
    pass,             \* 1 for unassertAst(T, o), 2 for the call on its result
    out1              \* the tree the first call returned

vars == <<input, options, ast, worklist, leavelist, targetModules,
          targetVariables, nodeToRemove, pc, ret, pass, out1>>

----------------------------------------------------------------------------
(* Bounds of the input space *)

MaxStmts == 2     \* statements in a Program body
MaxDecls == 2     \* declarators in a VariableDeclaration

----------------------------------------------------------------------------
(* Sequences *)

RECURSIVE Flat(_)
Flat(ss) == IF ss = <<>> THEN <<>> ELSE Head(ss) \o Flat(Tail(ss))

Range(s) == {s[i] : i \in DOMAIN s}

RECURSIVE SeqsUpTo(_, _)
SeqsUpTo(S, n) ==
    IF n = 0 THEN {<<>>}
    ELSE LET R == SeqsUpTo(S, n - 1)
         IN  R \cup {Append(r, s) : r \in {q \in R : Len(q) = n - 1}, s \in S}

----------------------------------------------------------------------------
(* ESTree nodes *)

Node(type, name, slots) == [id |-> <<>>, type |-> type, name |-> name, slots |-> slots]

NULL == Node("null", "", <<>>)

One(key, n) == [key |-> key, arr |-> FALSE, kids |-> IF n = NULL THEN <<>> ELSE <<n>>]

Many(key, ns) == [key |-> key, arr |-> TRUE, kids |-> ns]

\* node[key] for a single-child key; null when absent
Get(n, key) ==
    LET S == {i \in DOMAIN n.slots :
                 /\ n.slots[i].key = key
                 /\ ~n.slots[i].arr
                 /\ n.slots[i].kids # <<>>}
    IN  IF S = {} THEN NULL ELSE n.slots[CHOOSE i \in S : TRUE].kids[1]

\* node[key] for an array key
List(n, key) ==
    LET S == {i \in DOMAIN n.slots : n.slots[i].key = key /\ n.slots[i].arr}
    IN  IF S = {} THEN <<>> ELSE n.slots[CHOOSE i \in S : TRUE].kids

\* the children of a node in traversal order
Kids(n) == Flat([i \in DOMAIN n.slots |-> n.slots[i].kids])

RECURSIVE NodeSet(_)
\* the nodes of a tree
NodeSet(n) == IF n = NULL THEN {} ELSE {n} \cup UNION {NodeSet(k) : k \in Range(Kids(n))}

RECURSIVE Find(_, _)
\* the node of identity id in tree n, or null: identities are paths of
\* <<slot, index>> steps, and a node stays in the slot it was supplied in
Find(n, id) ==
    IF n.id = id THEN n
    ELSE LET d == Len(n.id)
         IN  IF Len(id) < d + 2 \/ id[d + 1] \notin DOMAIN n.slots THEN NULL
             ELSE LET ks == n.slots[id[d + 1]].kids
                      S  == {j \in DOMAIN ks : ks[j].id = SubSeq(id, 1, d + 2)}
                  IN  IF S = {} THEN NULL ELSE Find(ks[CHOOSE j \in S : TRUE], id)

RECURSIVE Label(_, _)
\* give every node its identity: its path from the root
Label(n, p) ==
    [id    |-> p,
     type  |-> n.type,
     name  |-> n.name,
     slots |-> [i \in DOMAIN n.slots |->
                  [key  |-> n.slots[i].key,
                   arr  |-> n.slots[i].arr,
                   kids |-> [j \in DOMAIN n.slots[i].kids |->
                               Label(n.slots[i].kids[j], p \o <<i, j>>)]]]]

RECURSIVE Subst(_, _, _)
\* the tree with the node of identity id replaced by the nodes of repl
\* (<<>> removes it: an array is spliced, a single-child key becomes null)
Subst(n, id, repl) ==
    LET d == Len(n.id)
    IN  IF Len(id) < d + 2 \/ id[d + 1] \notin DOMAIN n.slots THEN n
        ELSE LET i  == id[d + 1]
                 ks == n.slots[i].kids
             IN  [n EXCEPT !.slots[i].kids =
                     Flat([j \in DOMAIN ks |->
                             IF ks[j].id = id THEN repl
                             ELSE IF ks[j].id = SubSeq(id, 1, d + 2)
                                  THEN <<Subst(ks[j], id, repl)>>
                                  ELSE <<ks[j]>>])]

\* the last component of this.path() for a child: the key, or the array index
KeyOf(parent, id) ==
    LET S == {i \in DOMAIN parent.slots :
                 \E j \in DOMAIN parent.slots[i].kids : parent.slots[i].kids[j].id = id}
    IN  IF S = {} THEN "undefined"
        ELSE LET s == parent.slots[CHOOSE i \in S : TRUE]
             IN  IF s.arr THEN "index" ELSE s.key

----------------------------------------------------------------------------
(* src/index.mjs: defaultOptions and the node-shape predicates *)

defaultOptions ==
    [hasModules   |-> TRUE,
     modules      |-> {"assert", "assert/strict", "node:assert", "node:assert/strict"},
     hasVariables |-> FALSE,
     variables    |-> {}]

\* Object.assign(target, source): the keys source has overwrite target's
ObjectAssign(target, source) ==
    [hasModules   |-> target.hasModules \/ source.hasModules,
     modules      |-> IF source.hasModules THEN source.modules ELSE target.modules,
     hasVariables |-> target.hasVariables \/ source.hasVariables,
     variables    |-> IF source.hasVariables THEN source.variables ELSE target.variables]

\* new Set(config.modules), new Set(config.variables); new Set(undefined) is empty
createTargetModules(opts) ==
    LET config == ObjectAssign(defaultOptions, opts)
    IN  IF config.hasModules THEN config.modules ELSE {}

createTargetVariables(opts) ==
    LET config == ObjectAssign(defaultOptions, opts)
    IN  IF config.hasVariables THEN config.variables ELSE {}

isBodyOfIfStatement(parentNode, key) ==
    parentNode.type = "IfStatement" /\ (key = "consequent" \/ key = "alternate")

isIterationStatement(node) ==
    /\ node # NULL
    /\ node.type \in {"DoWhileStatement", "ForInStatement", "ForOfStatement",
                      "ForStatement", "WhileStatement"}

isBodyOfIterationStatement(parentNode, key) ==
    isIterationStatement(parentNode) /\ key = "body"

isNonBlockChildOfIfStatementOrLoop(currentNode, parentNode, key) ==
    /\ currentNode.type = "ExpressionStatement"
    /\ Get(currentNode, "expression").type = "CallExpression"
    /\ (isBodyOfIfStatement(parentNode, key) \/ isBodyOfIterationStatement(parentNode, key))

isLiteral(node) == node # NULL /\ node.type = "Literal"

isIdentifier(node) == node # NULL /\ node.type = "Identifier"

isObjectPattern(node) == node # NULL /\ node.type = "ObjectPattern"

isMemberExpression(node) == node # NULL /\ node.type = "MemberExpression"

isCallExpression(node) == node # NULL /\ node.type = "CallExpression"

isExpressionStatement(node) == node # NULL /\ node.type = "ExpressionStatement"

isImportDeclaration(node) == node # NULL /\ node.type = "ImportDeclaration"

----------------------------------------------------------------------------
(* src/index.mjs: createVisitor, the recognition predicates *)

isAssertionModuleName(lit) == isLiteral(lit) /\ lit.name \in targetModules

isAssertionVariableName(id) == isIdentifier(id) /\ id.name \in targetVariables

\* isAssertionMethod without the descent through nested member accesses
isAssertionMethod_oneLevel(callee) ==
    IF ~isMemberExpression(callee) THEN FALSE
    ELSE isAssertionVariableName(Get(callee, "object"))

RECURSIVE isAssertionMethod(_)
isAssertionMethod(callee) ==
    IF ~isMemberExpression(callee) THEN FALSE
    ELSE LET obj == Get(callee, "object")
         IN  IF isMemberExpression(obj) THEN isAssertionMethod(obj)
             ELSE isAssertionVariableName(obj)

isAssertionFunction(callee) == isAssertionVariableName(callee)

\* isConsoleAssert without the test of the property name
isConsoleAssert_anyProperty(callee) ==
    IF ~isMemberExpression(callee) THEN FALSE
    ELSE LET obj  == Get(callee, "object")
             prop == Get(callee, "property")
         IN  /\ isIdentifier(obj) /\ obj.name = "console"
             /\ isIdentifier(prop)

isConsoleAssert(callee) ==
    IF ~isMemberExpression(callee) THEN FALSE
    ELSE LET obj  == Get(callee, "object")
             prop == Get(callee, "property")
         IN  /\ isIdentifier(obj) /\ obj.name = "console"
             /\ isIdentifier(prop) /\ prop.name = "assert"

\* the registration functions, as the set of names they add to targetVariables
registerIdentifierAsAssertionVariable(id) ==
    IF isIdentifier(id) THEN {id.name} ELSE {}

handleDestructuredAssertionAssignment(objectPattern) ==
    UNION {registerIdentifierAsAssertionVariable(Get(p, "value")) :
              p \in Range(List(objectPattern, "properties"))}

handleImportSpecifiers(importDeclaration) ==
    UNION {registerIdentifierAsAssertionVariable(Get(s, "local")) :
              s \in Range(List(importDeclaration, "specifiers"))}

\* registerAssertionVariables with the identifier branch alone
registerAssertionVariables_identifierOnly(node) ==
    IF isIdentifier(node) THEN registerIdentifierAsAssertionVariable(node) ELSE {}

registerAssertionVariables(node) ==
    IF isIdentifier(node) THEN registerIdentifierAsAssertionVariable(node)
    ELSE IF isObjectPattern(node) THEN handleDestructuredAssertionAssignment(node)
    ELSE IF isImportDeclaration(node) THEN handleImportSpecifiers(node)
    ELSE {}

isRequireAssert(id, init) ==
    IF ~isCallExpression(init) THEN FALSE
    ELSE LET callee == Get(init, "callee")
             args   == List(init, "arguments")
             arg    == IF args = <<>> THEN NULL ELSE args[1]
         IN  IF ~isIdentifier(callee) \/ callee.name # "require" THEN FALSE
             ELSE IF ~isLiteral(arg) \/ ~isAssertionModuleName(arg) THEN FALSE
             ELSE isIdentifier(id) \/ isObjectPattern(id)

isRequireAssertStrict(id, init) ==
    IF ~isMemberExpression(init) THEN FALSE
    ELSE IF ~isRequireAssert(id, Get(init, "object")) THEN FALSE
    ELSE LET prop == Get(init, "property")
         IN  IF ~isIdentifier(prop) THEN FALSE ELSE prop.name = "strict"

isRemovalTarget(id, init) == isRequireAssert(id, init) \/ isRequireAssertStrict(id, init)

----------------------------------------------------------------------------
(* src/index.mjs: createVisitor, the enter handler.  Each case yields what  *)
(* it does: the nodes it adds to nodeToRemove, whether it calls this.skip() *)
(* and the names it registers.                                              *)

NoEffect == [add |-> {}, skip |-> FALSE, reg |-> {}]

enterImportDeclaration(currentNode, parentNode) ==
    IF ~isAssertionModuleName(Get(currentNode, "source")) THEN NoEffect
    ELSE [add  |-> {currentNode.id},
          skip |-> TRUE,
          reg  |-> registerAssertionVariables(currentNode)]

\* enterVariableDeclarator marking the declarator whatever the declaration holds
enterVariableDeclarator_alwaysDeclarator(currentNode, parentNode) ==
    IF isRemovalTarget(Get(currentNode, "id"), Get(currentNode, "init"))
    THEN [add  |-> {currentNode.id},
          skip |-> TRUE,
          reg  |-> registerAssertionVariables(Get(currentNode, "id"))]
    ELSE NoEffect

\* enterVariableDeclarator testing the number of declarators the declaration
\* was supplied with, not the number it holds now
enterVariableDeclarator_suppliedLength(currentNode, parentNode) ==
    IF isRemovalTarget(Get(currentNode, "id"), Get(currentNode, "init"))
    THEN [add  |-> IF Len(List(Find(input, parentNode.id), "declarations")) = 1
                   THEN {parentNode.id}
                   ELSE {currentNode.id},
          skip |-> TRUE,
          reg  |-> registerAssertionVariables(Get(currentNode, "id"))]
    ELSE NoEffect

enterVariableDeclarator(currentNode, parentNode) ==
    IF isRemovalTarget(Get(currentNode, "id"), Get(currentNode, "init"))
    THEN [add  |-> IF Len(List(parentNode, "declarations")) = 1
                   THEN {parentNode.id}
                   ELSE {currentNode.id},
          skip |-> TRUE,
          reg  |-> registerAssertionVariables(Get(currentNode, "id"))]
    ELSE NoEffect

enterAssignmentExpression(currentNode, parentNode) ==
    IF currentNode.name # "=" THEN NoEffect
    ELSE IF ~isExpressionStatement(parentNode) THEN NoEffect
    ELSE IF isRemovalTarget(Get(currentNode, "left"), Get(currentNode, "right"))
    THEN [add  |-> {parentNode.id},
          skip |-> TRUE,
          reg  |-> registerAssertionVariables(Get(currentNode, "left"))]
    ELSE NoEffect

enterCallExpression(currentNode, parentNode) ==
    IF ~isExpressionStatement(parentNode) THEN NoEffect
    ELSE LET callee == Get(currentNode, "callee")
         IN  IF isAssertionFunction(callee) \/ isAssertionMethod(callee) \/ isConsoleAssert(callee)
             THEN [add |-> {parentNode.id}, skip |-> TRUE, reg |-> {}]
             ELSE NoEffect

\* enterAwaitExpression without the test that the parent is a statement
enterAwaitExpression_anyParent(currentNode, parentNode) ==
    LET childNode == Get(currentNode, "argument")
    IN  IF isCallExpression(childNode)
        THEN LET callee == Get(childNode, "callee")
             IN  IF isAssertionFunction(callee) \/ isAssertionMethod(callee) \/ isConsoleAssert(callee)
                 THEN [add |-> {parentNode.id}, skip |-> TRUE, reg |-> {}]
                 ELSE NoEffect
        ELSE NoEffect

enterAwaitExpression(currentNode, parentNode) ==
    LET childNode == Get(currentNode, "argument")
    IN  IF isExpressionStatement(parentNode) /\ isCallExpression(childNode)
        THEN LET callee == Get(childNode, "callee")
             IN  IF isAssertionFunction(callee) \/ isAssertionMethod(callee) \/ isConsoleAssert(callee)
                 THEN [add |-> {parentNode.id}, skip |-> TRUE, reg |-> {}]
                 ELSE NoEffect
        ELSE NoEffect

EnterCases == {"ImportDeclaration", "VariableDeclarator", "AssignmentExpression",
               "CallExpression", "AwaitExpression"}

----------------------------------------------------------------------------
(* src/index.mjs: createVisitor, the leave handler.  Its outcome is         *)
(* "undefined" (no change), "BlockStatement" (the returned empty block),    *)
(* "remove" (this.remove()) or "TypeError": this.path() is null at the root *)
(* element, and path[path.length - 1] then throws.                          *)

LeaveCases == {"ImportDeclaration", "VariableDeclarator", "VariableDeclaration",
               "ExpressionStatement"}

\* leave without the VariableDeclaration case
leave_withoutDeclarationCase(currentNode, parentNode, key, pathIsNull) ==
    IF currentNode.type \notin (LeaveCases \ {"VariableDeclaration"}) THEN "undefined"
    ELSE IF currentNode.id \in nodeToRemove
         THEN IF pathIsNull THEN "TypeError"
              ELSE IF isNonBlockChildOfIfStatementOrLoop(currentNode, parentNode, key)
                   THEN "BlockStatement"
                   ELSE "remove"
         ELSE "undefined"

leave(currentNode, parentNode, key, pathIsNull) ==
    IF currentNode.type \notin LeaveCases THEN "undefined"
    ELSE IF currentNode.id \in nodeToRemove
         THEN IF pathIsNull THEN "TypeError"
              ELSE IF isNonBlockChildOfIfStatementOrLoop(currentNode, parentNode, key)
                   THEN "BlockStatement"
                   ELSE "remove"
         ELSE "undefined"

\* { type: syntax.BlockStatement, body: [] }: a new node
EmptyBlock(replaced) ==
    [id    |-> Append(replaced.id, 0),
     type  |-> "BlockStatement",
     name  |-> "",
     slots |-> <<Many("body", <<>>)>>]

----------------------------------------------------------------------------
(* The inputs: ESTree constructors, in estraverse's VisitorKeys order *)

Identifier(name) == Node("Identifier", name, <<>>)

Literal(value) == Node("Literal", value, <<>>)

MemberExpression(object, property) ==
    Node("MemberExpression", "", <<One("object", object), One("property", property)>>)

CallExpression(callee, arguments) ==
    Node("CallExpression", "", <<One("callee", callee), Many("arguments", arguments)>>)

AwaitExpression(argument) == Node("AwaitExpression", "", <<One("argument", argument)>>)

AssignmentExpression(operator, left, right) ==
    Node("AssignmentExpression", operator, <<One("left", left), One("right", right)>>)

ExpressionStatement(expression) ==
    Node("ExpressionStatement", "", <<One("expression", expression)>>)

Property(key, value) == Node("Property", "", <<One("key", key), One("value", value)>>)

ObjectPattern(properties) == Node("ObjectPattern", "", <<Many("properties", properties)>>)

ArrayPattern(elements) == Node("ArrayPattern", "", <<Many("elements", elements)>>)

VariableDeclarator(id, init) ==
    Node("VariableDeclarator", "", <<One("id", id), One("init", init)>>)

VariableDeclaration(declarations) ==
    Node("VariableDeclaration", "", <<Many("declarations", declarations)>>)

ImportDefaultSpecifier(local) == Node("ImportDefaultSpecifier", "", <<One("local", local)>>)

ImportSpecifier(imported, local) ==
    Node("ImportSpecifier", "", <<One("imported", imported), One("local", local)>>)

ImportDeclaration(specifiers, source) ==
    Node("ImportDeclaration", "", <<Many("specifiers", specifiers), One("source", source)>>)

BlockStatement(body) == Node("BlockStatement", "", <<Many("body", body)>>)

IfStatement(test, consequent, alternate) ==
    Node("IfStatement", "",
         <<One("test", test), One("consequent", consequent), One("alternate", alternate)>>)

WhileStatement(test, body) ==
    Node("WhileStatement", "", <<One("test", test), One("body", body)>>)

DoWhileStatement(body, test) ==
    Node("DoWhileStatement", "", <<One("body", body), One("test", test)>>)

ForStatement(init, test, update, body) ==
    Node("ForStatement", "",
         <<One("init", init), One("test", test), One("update", update), One("body", body)>>)

ForInStatement(left, right, body) ==
    Node("ForInStatement", "", <<One("left", left), One("right", right), One("body", body)>>)

ForOfStatement(left, right, body) ==
    Node("ForOfStatement", "", <<One("left", left), One("right", right), One("body", body)>>)

Program(body) == Node("Program", "", <<Many("body", body)>>)

----------------------------------------------------------------------------
(* The inputs: the statements the trees are built from *)

Call0(callee) == ExpressionStatement(CallExpression(callee, <<>>))

Dot(name, prop) == MemberExpression(Identifier(name), Identifier(prop))

Require(fn, module) == CallExpression(Identifier(fn), <<Literal(module)>>)

\* assert(), assert.ok(), assert.a.b(), notAssert.ok(), console.assert(), console.log()
Callees ==
    {Identifier("assert"),
     Dot("assert", "ok"),
     MemberExpression(Dot("assert", "a"), Identifier("b")),
     Dot("notAssert", "ok"),
     Dot("console", "assert"),
     Dot("console", "log")}

CallStmts == {Call0(c) : c \in Callees}

\* await assert.ok(); await assert(); await console.assert(); await console.log(); await x;
AwaitStmts ==
    {ExpressionStatement(AwaitExpression(CallExpression(c, <<>>))) :
        c \in {Dot("assert", "ok"), Identifier("assert"), Dot("console", "assert"),
               Dot("console", "log")}}
    \cup {ExpressionStatement(AwaitExpression(Identifier("x")))}

\* the right-hand sides: require('assert'), require('assert').strict, require('other'),
\* require('assert').ok, notRequire('assert'), require(), 1
Inits ==
    {Require("require", "assert"),
     MemberExpression(Require("require", "assert"), Identifier("strict")),
     Require("require", "other"),
     MemberExpression(Require("require", "assert"), Identifier("ok")),
     Require("notRequire", "assert"),
     CallExpression(Identifier("require"), <<>>),
     Literal("1")}

\* the binding targets: assert, { ok: assert }, [assert], exports.assert
Targets ==
    {Identifier("assert"),
     ObjectPattern(<<Property(Identifier("ok"), Identifier("assert"))>>),
     ArrayPattern(<<Identifier("assert")>>),
     Dot("exports", "assert")}

AssignStmts ==
    {ExpressionStatement(AssignmentExpression("=", t, i)) : t \in Targets, i \in Inits}
    \cup {ExpressionStatement(AssignmentExpression("+=", Identifier("assert"),
                                                   Require("require", "assert"))),
          \* x = assert = require('assert'): the assignment is not the sole expression
          ExpressionStatement(AssignmentExpression("=", Identifier("x"),
              AssignmentExpression("=", Identifier("assert"), Require("require", "assert"))))}

ImportStmts ==
    {ImportDeclaration(<<ImportDefaultSpecifier(Identifier("assert"))>>, Literal("assert")),
     ImportDeclaration(<<ImportSpecifier(Identifier("strict"), Identifier("assert")),
                         ImportSpecifier(Identifier("ok"), Identifier("notAssert"))>>,
                       Literal("node:assert")),
     ImportDeclaration(<<ImportDefaultSpecifier(Identifier("assert"))>>, Literal("other")),
     ImportDeclaration(<<>>, Literal("assert"))}

\* assert = require('assert'), { ok: assert } = require('assert').strict, x = 1,
\* r = await assert.ok(), notAssert = require('other')
Declarators ==
    {VariableDeclarator(Identifier("assert"), Require("require", "assert")),
     VariableDeclarator(ObjectPattern(<<Property(Identifier("ok"), Identifier("assert"))>>),
                        MemberExpression(Require("require", "assert"), Identifier("strict"))),
     VariableDeclarator(Identifier("x"), Literal("1")),
     VariableDeclarator(Identifier("r"),
                        AwaitExpression(CallExpression(Dot("assert", "rejects"), <<>>))),
     VariableDeclarator(Identifier("notAssert"), Require("require", "other"))}

DeclStmts == {VariableDeclaration(ds) : ds \in SeqsUpTo(Declarators, MaxDecls) \ {<<>>}}

\* the statements put in the consequent, alternate and body slots
SlotStmts ==
    {Call0(Dot("console", "assert")),
     Call0(Dot("console", "log")),
     Call0(Identifier("assert")),
     ExpressionStatement(AwaitExpression(CallExpression(Dot("console", "assert"), <<>>))),
     ExpressionStatement(AssignmentExpression("=", Identifier("assert"),
                                              Require("require", "assert"))),
     VariableDeclaration(<<VariableDeclarator(Identifier("assert"),
                                              Require("require", "assert"))>>),
     BlockStatement(<<Call0(Dot("console", "assert"))>>)}

Cond == Identifier("c")

CompoundStmts ==
    UNION {{IfStatement(Cond, s, NULL),
            IfStatement(Cond, BlockStatement(<<>>), s),
            WhileStatement(Cond, s),
            DoWhileStatement(s, Cond),
            ForStatement(NULL, Cond, NULL, s),
            ForInStatement(Identifier("k"), Identifier("o"), s),
            ForOfStatement(Identifier("k"), Identifier("o"), s)} : s \in SlotStmts}
    \cup {IfStatement(Cond, s, t) : s, t \in {Call0(Dot("console", "assert")),
                                               Call0(Dot("console", "log"))}}
    \cup {ForStatement(VariableDeclaration(<<VariableDeclarator(Identifier("assert"),
                                               Require("require", "assert"))>>),
                       Cond, NULL, BlockStatement(<<Call0(Identifier("assert"))>>))}

AllStmts == CallStmts \cup AwaitStmts \cup AssignStmts \cup ImportStmts
            \cup DeclStmts \cup CompoundStmts

\* the statements combined with one another in a Program body
CoreStmts ==
    {Call0(Identifier("assert")),
     Call0(MemberExpression(Dot("assert", "a"), Identifier("b"))),
     Call0(Dot("notAssert", "ok")),
     Call0(Dot("console", "log")),
     ExpressionStatement(AwaitExpression(CallExpression(Dot("assert", "ok"), <<>>))),
     ExpressionStatement(AssignmentExpression("=", Identifier("assert"),
                                              Require("require", "assert"))),
     ImportDeclaration(<<ImportSpecifier(Identifier("strict"), Identifier("assert")),
                         ImportSpecifier(Identifier("ok"), Identifier("notAssert"))>>,
                       Literal("node:assert")),
     VariableDeclaration(<<VariableDeclarator(
         ObjectPattern(<<Property(Identifier("ok"), Identifier("assert"))>>),
         MemberExpression(Require("require", "assert"), Identifier("strict")))>>),
     VariableDeclaration(<<VariableDeclarator(Identifier("x"), Literal("1")),
                           VariableDeclarator(Identifier("notAssert"),
                                              Require("require", "other"))>>),
     VariableDeclaration(<<VariableDeclarator(Identifier("r"),
         AwaitExpression(CallExpression(Dot("assert", "rejects"), <<>>)))>>),
     IfStatement(Cond, Call0(Identifier("assert")), NULL),
     WhileStatement(Cond, ExpressionStatement(
         AwaitExpression(CallExpression(Dot("notAssert", "ok"), <<>>))))}

\* a Program of core statements, a Program of any one statement, or a bare statement
Inputs ==
    {Program(b) : b \in SeqsUpTo(CoreStmts, MaxStmts)}
    \cup {Program(<<s>>) : s \in AllStmts}
    \cup AllStmts

\* no options; variables only; modules only; both
OptionValues ==
    {[hasModules |-> FALSE, modules |-> {}, hasVariables |-> FALSE, variables |-> {}],
     [hasModules |-> FALSE, modules |-> {}, hasVariables |-> TRUE, variables |-> {"assert"}],
     [hasModules |-> TRUE, modules |-> {"other"}, hasVariables |-> FALSE, variables |-> {}],
     [hasModules |-> TRUE, modules |-> {"other", "assert"},
      hasVariables |-> TRUE, variables |-> {"notAssert"}]}

----------------------------------------------------------------------------
(* unassertAst(ast, options): replace(ast, createVisitor(options)) *)

SENTINEL == <<-1>>

NoRet == <<-2>>

\* the state after createVisitor(opts) and the set-up of replace(root, visitor):
\* the root element is on the worklist and on the leavelist
Started(root, opts, tm, tv, marked, wl, ll, at, returned) ==
    /\ tm = createTargetModules(opts)
    /\ tv = createTargetVariables(opts)
    /\ marked = {}
    /\ wl = <<root.id>>
    /\ ll = <<root.id>>
    /\ at = "walk"
    /\ returned = NoRet

Init ==
    \E t \in Inputs, o \in OptionValues :
        /\ input = Label(t, <<>>)
        /\ options = o
        /\ ast = input
        /\ pass = 1
        /\ out1 = NULL
        /\ Started(input, o, targetModules, targetVariables, nodeToRemove,
                   worklist, leavelist, pc, ret)

Entering == pc = "walk" /\ worklist # <<>> /\ Head(worklist) # SENTINEL

Leaving == pc = "walk" /\ worklist # <<>> /\ Head(worklist) = SENTINEL

\* replace's loop after visitor.enter: push the sentinel and the element, then,
\* unless skipped, the children
Enter(cur, eff) ==
    /\ nodeToRemove' = nodeToRemove \cup eff.add
    /\ targetVariables' = targetVariables \cup eff.reg
    /\ leavelist' = <<cur.id>> \o leavelist
    /\ worklist' = (IF eff.skip THEN <<>>
                    ELSE LET ks == Kids(cur) IN [i \in DOMAIN ks |-> ks[i].id])
                   \o <<SENTINEL>> \o Tail(worklist)
    /\ UNCHANGED <<input, options, ast, targetModules, pc, ret, pass, out1>>

\* the element popped from the worklist, and the parent handed to the handlers
currentNode == Find(ast, Head(worklist))

parentOnEnter == Find(ast, Head(leavelist))

EnterImportDeclaration ==
    /\ Entering
    /\ LET cur == currentNode
       IN  /\ cur.type = "ImportDeclaration"
           /\ Enter(cur, enterImportDeclaration(cur, parentOnEnter))

EnterVariableDeclarator ==
    /\ Entering
    /\ LET cur == currentNode
       IN  /\ cur.type = "VariableDeclarator"
           /\ Enter(cur, enterVariableDeclarator(cur, parentOnEnter))

EnterAssignmentExpression ==
    /\ Entering
    /\ LET cur == currentNode
       IN  /\ cur.type = "AssignmentExpression"
           /\ Enter(cur, enterAssignmentExpression(cur, parentOnEnter))

EnterCallExpression ==
    /\ Entering
    /\ LET cur == currentNode
       IN  /\ cur.type = "CallExpression"
           /\ Enter(cur, enterCallExpression(cur, parentOnEnter))

EnterAwaitExpression ==
    /\ Entering
    /\ LET cur == currentNode
       IN  /\ cur.type = "AwaitExpression"
           /\ Enter(cur, enterAwaitExpression(cur, parentOnEnter))

\* every other node type: the switch has no case for it
EnterOther ==
    /\ Entering
    /\ LET cur == currentNode
       IN  /\ cur.type \notin EnterCases
           /\ Enter(cur, NoEffect)

\* the element popped from the leavelist at a sentinel, and its parent
leavingNode == Find(ast, Head(leavelist))

parentOnLeave == Find(ast, leavelist[2])

\* this.path() is null for the root element
pathIsNull == Len(leavelist) = 2

leaveOutcome ==
    LET cur    == leavingNode
        parent == parentOnLeave
    IN  leave(cur, parent, KeyOf(parent, cur.id), pathIsNull)

Leave(newAst) ==
    /\ ast' = newAst
    /\ worklist' = Tail(worklist)
    /\ leavelist' = Tail(leavelist)
    /\ UNCHANGED <<input, options, targetModules, targetVariables, nodeToRemove,
                   pc, ret, pass, out1>>

\* leave returned undefined and did not call this.remove()
LeaveUnchanged ==
    /\ Leaving
    /\ leaveOutcome = "undefined"
    /\ Leave(ast)

\* leave returned the empty block: element.ref.replace(target)
LeaveReplace ==
    /\ Leaving
    /\ leaveOutcome = "BlockStatement"
    /\ Leave(Subst(ast, Head(leavelist), <<EmptyBlock(leavingNode)>>))

\* leave called this.remove(): removeElem(element)
LeaveRemove ==
    /\ Leaving
    /\ leaveOutcome = "remove"
    /\ Leave(Subst(ast, Head(leavelist), <<>>))

\* leave threw: the exception propagates out of unassertAst
LeaveThrow ==
    /\ Leaving
    /\ leaveOutcome = "TypeError"
    /\ pc' = "threw"
    /\ UNCHANGED <<input, options, ast, worklist, leavelist, targetModules,
                   targetVariables, nodeToRemove, ret, pass, out1>>

\* the worklist is empty: return outer.root
Return ==
    /\ pc = "walk"
    /\ worklist = <<>>
    /\ pc' = "returned"
    /\ ret' = ast.id
    /\ UNCHANGED <<input, options, ast, worklist, leavelist, targetModules,
                   targetVariables, nodeToRemove, pass, out1>>

\* the caller passes the returned tree to unassertAst again, with the same options
Again ==
    /\ pc = "returned"
    /\ pass = 1
    /\ pass' = 2
    /\ out1' = ast
    /\ Started(ast, options, targetModules', targetVariables', nodeToRemove',
               worklist', leavelist', pc', ret')
    /\ UNCHANGED <<input, options, ast>>

Next ==
    \/ EnterImportDeclaration
    \/ EnterVariableDeclarator
    \/ EnterAssignmentExpression
    \/ EnterCallExpression
    \/ EnterAwaitExpression
    \/ EnterOther
    \/ LeaveUnchanged
    \/ LeaveReplace
    \/ LeaveRemove
    \/ LeaveThrow
    \/ Return

Spec == Init /\ [][Next]_vars

NextTwice == Next \/ Again

SpecTwice == Init /\ [][NextTwice]_vars

----------------------------------------------------------------------------
(* What the claims speak of, stated on the trees and not through the visitor *)

\* the parent of a node of tree t (null for the root), and the key it sits under
ParentIn(t, n) == IF n.id = <<>> THEN NULL ELSE Find(t, SubSeq(n.id, 1, Len(n.id) - 2))

SlotKeyIn(t, n) ==
    IF n.id = <<>> THEN "none" ELSE ParentIn(t, n).slots[n.id[Len(n.id) - 1]].key

LoopTypes == {"DoWhileStatement", "ForInStatement", "ForOfStatement", "ForStatement",
              "WhileStatement"}

\* n sits in the consequent or alternate slot of an if, or in the body slot of a loop
InBranchOrBodySlot(t, n) ==
    LET p == ParentIn(t, n)
        k == SlotKeyIn(t, n)
    IN  \/ p.type = "IfStatement" /\ k \in {"consequent", "alternate"}
        \/ p.type \in LoopTypes /\ k = "body"

RECURSIVE ChainRoot(_)
\* the innermost object of a member-access chain
ChainRoot(e) == IF e.type = "MemberExpression" THEN ChainRoot(Get(e, "object")) ELSE e

IsConsoleAssertShape(callee) ==
    /\ callee.type = "MemberExpression"
    /\ Get(callee, "object").type = "Identifier" /\ Get(callee, "object").name = "console"
    /\ Get(callee, "property").type = "Identifier" /\ Get(callee, "property").name = "assert"

\* assertion-function, assertion-method or console.assert callee, for the names tv
CalleeMatches(callee, tv) ==
    \/ callee.type = "Identifier" /\ callee.name \in tv
    \/ /\ callee.type = "MemberExpression"
       /\ ChainRoot(callee).type = "Identifier"
       /\ ChainRoot(callee).name \in tv
    \/ IsConsoleAssertShape(callee)

IsRequireOf(e, tm) ==
    /\ e.type = "CallExpression"
    /\ Get(e, "callee").type = "Identifier" /\ Get(e, "callee").name = "require"
    /\ List(e, "arguments") # <<>>
    /\ List(e, "arguments")[1].type = "Literal"
    /\ List(e, "arguments")[1].name \in tm

\* (id, init) is a require of a target module, or its .strict, bound to an
\* identifier or an object pattern
IsTargetBinding(id, init, tm) ==
    /\ id.type \in {"Identifier", "ObjectPattern"}
    /\ \/ IsRequireOf(init, tm)
       \/ /\ init.type = "MemberExpression"
          /\ Get(init, "property").type = "Identifier"
          /\ Get(init, "property").name = "strict"
          /\ IsRequireOf(Get(init, "object"), tm)

\* the local names a binding target introduces
BoundNames(id) ==
    IF id.type = "Identifier" THEN {id.name}
    ELSE IF id.type = "ObjectPattern"
         THEN {Get(q, "value").name :
                  q \in {r \in Range(List(id, "properties")) :
                            Get(r, "value").type = "Identifier"}}
         ELSE {}

LocalNames(imp) ==
    {Get(q, "local").name :
        q \in {r \in Range(List(imp, "specifiers")) : Get(r, "local").type = "Identifier"}}

IsTargetImport(n, tm) ==
    /\ n.type = "ImportDeclaration"
    /\ Get(n, "source").type = "Literal"
    /\ Get(n, "source").name \in tm

IsTargetDeclarator(n, tm) ==
    n.type = "VariableDeclarator" /\ IsTargetBinding(Get(n, "id"), Get(n, "init"), tm)

\* a '=' assignment that is the sole expression of its statement and a target binding
IsTargetAssignment(t, n, tm) ==
    /\ n.type = "AssignmentExpression"
    /\ n.name = "="
    /\ ParentIn(t, n).type = "ExpressionStatement"
    /\ IsTargetBinding(Get(n, "left"), Get(n, "right"), tm)

\* a call that is the sole expression of its statement
IsCallStatement(t, n) ==
    n.type = "CallExpression" /\ ParentIn(t, n).type = "ExpressionStatement"

\* an await of a call, the sole expression of its statement
IsAwaitCallStatement(t, n) ==
    /\ n.type = "AwaitExpression"
    /\ ParentIn(t, n).type = "ExpressionStatement"
    /\ Get(n, "argument").type = "CallExpression"

\* node n of tree t satisfies one of the recognition patterns
Recognised(t, n, tv, tm) ==
    \/ IsTargetImport(n, tm)
    \/ IsTargetDeclarator(n, tm)
    \/ IsTargetAssignment(t, n, tm)
    \/ IsCallStatement(t, n) /\ CalleeMatches(Get(n, "callee"), tv)
    \/ IsAwaitCallStatement(t, n) /\ CalleeMatches(Get(Get(n, "argument"), "callee"), tv)

RECURSIVE LexLess(_, _)
\* a comes before b in document order (pre-order of the supplied tree)
LexLess(a, b) ==
    IF a = <<>> THEN b # <<>>
    ELSE IF b = <<>> THEN FALSE
    ELSE IF a[1] # b[1] THEN a[1] < b[1]
    ELSE LexLess(Tail(a), Tail(b))

IsEmptyBlock(n) == n.type = "BlockStatement" /\ List(n, "body") = <<>>

OptionVariables == IF options.hasVariables THEN options.variables ELSE {}

AtStart == pc = "walk" /\ worklist = <<ast.id>> /\ leavelist = <<ast.id>>

----------------------------------------------------------------------------
(* C1 *)

\* C1: every marked node that occupies the consequent or alternate slot of an
\* IfStatement, or the body slot of a loop, is replaced by an empty
\* BlockStatement and never deleted, whatever expression it wraps: when
\* unassertAst has returned, the slot of each such node holds an empty block.
C1_MarkedSlotBecomesEmptyBlock ==
    pc = "returned" =>
        \A n \in NodeSet(input) :
            (n.id \in nodeToRemove /\ n.id # <<>> /\ InBranchOrBodySlot(input, n)) =>
                IsEmptyBlock(Get(Find(ast, ParentIn(input, n).id), SlotKeyIn(input, n)))

----------------------------------------------------------------------------
(* C2 *)

\* C2: at the start of a traversal the Target Variable Set is {assert} united
\* with options.variables; hence with no options the sole statement assert()
\* of a program is removed.
C2_SeedIsAssertPlusOptions ==
    /\ AtStart => targetVariables = {"assert"} \cup OptionVariables
    /\ (pc = "returned" /\ ~options.hasVariables
            /\ input = Label(Program(<<Call0(Identifier("assert"))>>), <<>>))
         => List(ast, "body") = <<>>

----------------------------------------------------------------------------
(* C3 *)

\* C3: for every root and every options value unassertAst returns the very
\* same root node that was supplied, also when the root itself is a statement
\* that matches a removal pattern: the call ends by returning, and what it
\* returns is the root supplied.
C3_ReturnsSuppliedRoot ==
    pc # "walk" => (pc = "returned" /\ ret = input.id /\ ast.id = input.id)

----------------------------------------------------------------------------
(* C4 *)

\* C4: idempotence.  The second call, on the tree the first call returned and
\* with the same options, marks no node, does not throw and leaves the tree
\* equal to the first call's output.
C4_SecondPassChangesNothing ==
    pass = 2 => (nodeToRemove = {} /\ pc # "threw" /\ ast = out1)

\* the second call has returned on a tree the first call had changed
C4_Witness ==
    /\ pass = 2
    /\ pc = "returned"
    /\ out1 # input
    /\ nodeToRemove = {}

----------------------------------------------------------------------------
(* C5 *)

\* no node of the supplied tree satisfies a recognition pattern
NoMatch == \A n \in NodeSet(input) : ~Recognised(input, n, targetVariables, targetModules)

\* C5: conservation.  For an input in which no node satisfies a recognition
\* pattern the Removal Marker Set stays empty, the Target Variable Set never
\* changes, the call does not throw and the tree stays equal to the input.
C5_Conservation ==
    /\ [](NoMatch => (nodeToRemove = {} /\ ast = input /\ pc # "threw"))
    /\ [][NoMatch => targetVariables' = targetVariables]_vars

\* a returned call on an input without a match that holds a call statement,
\* a declarator and a branch or loop
C5_Witness ==
    /\ pc = "returned"
    /\ NoMatch
    /\ \E n \in NodeSet(input) : IsCallStatement(input, n)
    /\ ast = input

----------------------------------------------------------------------------
(* C6 *)

\* the declarators of declaration d that are not removal targets, in order
KeptDeclarators(d) ==
    SelectSeq(List(d, "declarations"), LAMBDA x : ~IsTargetDeclarator(x, targetModules))

\* C6: a removal-target declarator that is the only declarator takes the
\* whole declaration out of the tree; otherwise only the removal-target
\* declarators go and the other declarators stay, in their original order.
C6_DeclaratorRemoval ==
    pc = "returned" =>
        \A d \in NodeSet(input) :
            d.type = "VariableDeclaration" =>
                IF KeptDeclarators(d) = <<>>
                THEN Find(ast, d.id) = NULL
                ELSE /\ Find(ast, d.id) # NULL
                     /\ List(Find(ast, d.id), "declarations") = KeptDeclarators(d)

\* a declaration of several declarators has lost some of them and kept the others
C6_Witness ==
    /\ pc = "returned"
    /\ \E d \in NodeSet(input) :
          /\ d.type = "VariableDeclaration"
          /\ KeptDeclarators(d) # <<>>
          /\ Len(KeptDeclarators(d)) < Len(List(d, "declarations"))
          /\ List(Find(ast, d.id), "declarations") = KeptDeclarators(d)

----------------------------------------------------------------------------
(* C7 *)

\* the visitor is about to enter a call that is the sole expression of a statement
EnteringCallStatement ==
    /\ Entering
    /\ currentNode.type = "CallExpression"
    /\ parentOnEnter.type = "ExpressionStatement"

\* C7: entering a call that is the sole expression of a statement marks that
\* statement exactly when the callee is a target identifier, a member chain
\* rooted at one, or console.assert; and when the call has returned, every
\* console.assert() statement is gone under every configuration while every
\* call statement on a chain rooted at a name that never was a target is kept.
C7_CallStatementMarking ==
    /\ [][EnteringCallStatement =>
            /\ parentOnEnter.id \notin nodeToRemove
            /\ (parentOnEnter.id \in nodeToRemove')
                  <=> CalleeMatches(Get(currentNode, "callee"), targetVariables)]_vars
    /\ [](pc = "returned" =>
            \A n \in NodeSet(input) :
                IsCallStatement(input, n) =>
                    /\ IsConsoleAssertShape(Get(n, "callee")) => Find(ast, n.id) = NULL
                    /\ ~CalleeMatches(Get(n, "callee"), targetVariables)
                          => Find(ast, n.id) = n)

\* a statement calling through a nested member chain rooted at a target is marked
C7_Witness ==
    \E n \in NodeSet(input) :
        /\ IsCallStatement(input, n)
        /\ Get(Get(n, "callee"), "object").type = "MemberExpression"
        /\ ParentIn(input, n).id \in nodeToRemove

----------------------------------------------------------------------------
(* C8 *)

EnteringAwait == Entering /\ currentNode.type = "AwaitExpression"

\* the await being entered is the sole expression of a statement and awaits a
\* call whose callee matches
AwaitHit ==
    /\ parentOnEnter.type = "ExpressionStatement"
    /\ Get(currentNode, "argument").type = "CallExpression"
    /\ CalleeMatches(Get(Get(currentNode, "argument"), "callee"), targetVariables)

\* C8: entering an await marks the enclosing statement and skips the subtree
\* when and only when the await is the sole expression of a statement and
\* awaits a call with a matching callee; in any other position nothing is
\* marked, neither at the await nor at the awaited call, and a declarator
\* initialised by an awaited assertion call is in the returned tree untouched.
C8_AwaitStatementOnly ==
    /\ [][EnteringAwait =>
            IF AwaitHit
            THEN /\ nodeToRemove' = nodeToRemove \cup {parentOnEnter.id}
                 /\ Head(worklist') = SENTINEL
            ELSE /\ nodeToRemove' = nodeToRemove
                 /\ Head(worklist') = Get(currentNode, "argument").id]_vars
    /\ [][(Entering /\ currentNode.type = "CallExpression"
                    /\ parentOnEnter.type = "AwaitExpression")
            => nodeToRemove' = nodeToRemove]_vars
    /\ [](pc = "returned" =>
            \A n \in NodeSet(input) :
                (n.type = "VariableDeclarator" /\ Get(n, "init").type = "AwaitExpression")
                    => Find(ast, n.id) = n)

\* const r = await assert.rejects() was traversed with assert a target, and is kept
C8_Witness ==
    /\ pc = "returned"
    /\ "assert" \in targetVariables
    /\ \E n \in NodeSet(ast) :
          /\ n.type = "VariableDeclarator"
          /\ Get(n, "init").type = "AwaitExpression"
          /\ CalleeMatches(Get(Get(Get(n, "init"), "argument"), "callee"), targetVariables)
    /\ \E m \in NodeSet(input) :
          /\ IsAwaitCallStatement(input, m)
          /\ Find(ast, m.id) = NULL

----------------------------------------------------------------------------
(* C9 *)

\* the bindings of tree t that register name v
BindsName(t, b, v) ==
    \/ IsTargetImport(b, targetModules) /\ v \in LocalNames(b)
    \/ IsTargetDeclarator(b, targetModules) /\ v \in BoundNames(Get(b, "id"))
    \/ IsTargetAssignment(t, b, targetModules) /\ v \in BoundNames(Get(b, "left"))

\* C9: registration follows the traversal.  Entering a target import, a target
\* declarator or a target assignment marks it (or its declaration, or its
\* statement) and puts every local name it binds in the Target Variable Set;
\* the set never loses a name; and when the call has returned, a call
\* statement on a name or on a chain rooted at a name is gone exactly when
\* the name was in the seed set or a binding of it comes earlier in the tree.
C9_RegistrationOrder ==
    /\ [][targetVariables \subseteq targetVariables']_vars
    /\ [][(Entering /\ IsTargetImport(currentNode, targetModules)) =>
            /\ currentNode.id \in nodeToRemove'
            /\ LocalNames(currentNode) \subseteq targetVariables']_vars
    /\ [][(Entering /\ IsTargetDeclarator(currentNode, targetModules)) =>
            /\ currentNode.id \in nodeToRemove' \/ parentOnEnter.id \in nodeToRemove'
            /\ BoundNames(Get(currentNode, "id")) \subseteq targetVariables']_vars
    /\ [][(Entering /\ IsTargetAssignment(ast, currentNode, targetModules)) =>
            /\ parentOnEnter.id \in nodeToRemove'
            /\ BoundNames(Get(currentNode, "left")) \subseteq targetVariables']_vars
    /\ [](pc = "returned" =>
            \A c \in NodeSet(input) :
                (/\ IsCallStatement(input, c)
                 /\ ~IsConsoleAssertShape(Get(c, "callee"))
                 /\ ChainRoot(Get(c, "callee")).type = "Identifier") =>
                    LET v == ChainRoot(Get(c, "callee")).name
                    IN  (Find(ast, ParentIn(input, c).id) = NULL)
                           <=> \/ v \in createTargetVariables(options)
                               \/ \E b \in NodeSet(input) :
                                     BindsName(input, b, v) /\ LexLess(b.id, c.id))

\* a program of a binding and a later call statement on the name it binds, a
\* name that was not in the seed set, has returned with both gone
C9_Witness ==
    /\ pc = "returned"
    /\ input.type = "Program"
    /\ Len(List(input, "body")) = 2
    /\ List(ast, "body") = <<>>
    /\ \E c \in NodeSet(input) :
          /\ IsCallStatement(input, c)
          /\ ~IsConsoleAssertShape(Get(c, "callee"))
          /\ ChainRoot(Get(c, "callee")).name \notin createTargetVariables(options)
          /\ \E b \in NodeSet(input) :
                /\ BindsName(input, b, ChainRoot(Get(c, "callee")).name)
                /\ LexLess(b.id, c.id)

----------------------------------------------------------------------------
(* C10 *)

\* C10: every VariableDeclaration in the tree has at least one declarator,
\* at every point of the traversal and after it (each declaration supplied
\* has at least one).
C10_NoEmptyDeclaration ==
    \A n \in NodeSet(ast) :
        n.type = "VariableDeclaration" => List(n, "declarations") # <<>>

\* a declaration whose declarators all were removal targets, and were several,
\* is gone from the returned tree
C10_Witness ==
    /\ pc = "returned"
    /\ \E d \in NodeSet(input) :
          /\ d.type = "VariableDeclaration"
          /\ Len(List(d, "declarations")) >= 2
          /\ KeptDeclarators(d) = <<>>
          /\ Find(ast, d.id) = NULL

====
